---- MODULE Spec2Model ----
(***************************************************************************)
(* Opportunity ingestion pipeline of opentern: the scraping cron route     *)
(* (src/app/api/cron/scrape/route.ts) and the opportunities store          *)
(* (src/convex/opportunities.ts).                                          *)
(*                                                                         *)
(* Text that the code inspects character by character (company, title) is  *)
(* a sequence of Unicode code points.  Opaque text (links, locations,      *)
(* source tags) is a TLA+ string.  Time is counted in ticks since the      *)
(* epoch, TicksPerDay ticks to the day.                                    *)
(***************************************************************************)
EXTENDS Integers, Sequences, FiniteSets, TLC

VARIABLES corpus, applications, now, upstream, run, run2, runs, prev, lastCall, lastQuery,
          normalized, traversal

vars == <<corpus, applications, now, upstream, run, run2, runs, prev, lastCall, lastQuery,
          normalized, traversal>>

-----------------------------------------------------------------------------
(* Bounds of the model *)

\* clock resolution: ticks per day
TicksPerDay == 2
\* how many ticks the clock may advance after the initial instant
MaxTicks == 3
\* how many orchestrator invocations are started
MaxRuns == 2
\* longest batch a direct addOpportunities call carries
MaxBatch == 2
\* largest corpus direct addOpportunities calls build
MaxCorpus == 3
\* largest page size a query asks for
MaxNumItems == 2
\* how many applications are created from opportunities
MaxApplications == 1
\* longest README, in lines, the extractors are applied to on their own
MaxLines == 3
\* longest text, in code points, removeEmojis is applied to on its own
MaxText == 5

-----------------------------------------------------------------------------
(* Values *)

\* an absent optional number (v.optional(v.number())); no timestamp is negative
Undefined == -1
\* an absent optional string of code points (no code point is negative)
NoString == <<-1>>
\* an absent optional opaque string
Absent == "<undefined>"
\* "x.co", "y.co": two link targets
LinkX == <<120, 46, 99, 111>>
LinkY == <<121, 46, 99, 111>>

\* "Acme"
Acme == <<65, 99, 109, 101>>
\* "acme"
AcmeLower == <<97, 99, 109, 101>>
\* "Globex"
Globex == <<71, 108, 111, 98, 101, 120>>
\* "Company" (header row)
CompanyHeader == <<67, 111, 109, 112, 97, 110, 121>>
\* the continuation marker U+21B3
Marker == <<8627>>
\* "SWE"
SWE == <<83, 87, 69>>
\* "swe"
SweLower == <<115, 119, 101>>
\* "Data"
Data == <<68, 97, 116, 97>>
\* "ML"
ML == <<77, 76>>
\* U+1F525 followed by " SWE"
FireSWE == <<128293, 32, 83, 87, 69>>
\* "company" and "name", the header-row needles
NeedleCompany == <<99, 111, 109, 112, 97, 110, 121>>
NeedleName == <<110, 97, 109, 101>>

SourceA == "vanshb03"
SourceB == "SimplifyJobs"
Sources == {SourceA, SourceB}

-----------------------------------------------------------------------------
(* String helpers (JavaScript String methods on code point sequences) *)

Range(s) == {s[i] : i \in 1..Len(s)}

toLowerChar(c) == IF c >= 65 /\ c <= 90 THEN c + 32 ELSE c

toLowerCase(s) == [i \in 1..Len(s) |-> toLowerChar(s[i])]

includes(s, needle) ==
  \E i \in 1..(Len(s) - Len(needle) + 1) : SubSeq(s, i, i + Len(needle) - 1) = needle

\* the white space and line terminators String.prototype.trim removes
IsSpace(c) ==
  \/ c \in {9, 10, 11, 12, 13, 32, 160, 5760, 8232, 8233, 8239, 8287, 12288, 65279}
  \/ c >= 8192 /\ c <= 8202

trim(s) ==
  LET keep == {i \in 1..Len(s) : ~IsSpace(s[i])}
  IN IF keep = {} THEN <<>>
     ELSE SubSeq(s, CHOOSE i \in keep : \A j \in keep : i <= j,
                    CHOOSE i \in keep : \A j \in keep : i >= j)

IsEmoji(c) ==
  \/ c >= 128512 /\ c <= 128591     \* 1F600-1F64F
  \/ c >= 127744 /\ c <= 128511     \* 1F300-1F5FF
  \/ c >= 128640 /\ c <= 128767     \* 1F680-1F6FF
  \/ c >= 127456 /\ c <= 127487     \* 1F1E0-1F1FF
  \/ c >= 9728 /\ c <= 9983         \* 2600-26FF
  \/ c >= 9984 /\ c <= 10175        \* 2700-27BF
  \/ c >= 129280 /\ c <= 129535     \* 1F900-1F9FF
  \/ c >= 127000 /\ c <= 127221   \* 1F018-1F0F5
  \/ c >= 127488 /\ c <= 127743     \* 1F200-1F2FF
  \/ c >= 129648 /\ c <= 129791     \* 1FA70-1FAFF
  \/ c = 126980                     \* 1F004
  \/ c = 127183                     \* 1F0CF
  \/ c >= 127344 /\ c <= 127569     \* 1F170-1F251

\* the replace without the trim
removeEmojis_NoTrim(text) == SelectSeq(text, LAMBDA c : ~IsEmoji(c))

removeEmojis(text) == trim(SelectSeq(text, LAMBDA c : ~IsEmoji(c)))

\* a text before removeEmojis is applied to it, after, and after a second application
NoText == [input |-> <<>>, output |-> <<>>, again |-> <<>>, calls |-> 0]

-----------------------------------------------------------------------------
(* Time: Date.now(), new Date(year, month, day), getFullYear() *)

RetentionDays == 14
DefaultAgeDays == 180
WeekDays == 7
MonthDays == 30

\* days before the first of each month (month index 0..11), common year
CumDays == <<0, 31, 59, 90, 120, 151, 181, 212, 243, 273, 304, 334>>
YearDays == CumDays[12] + 31

Days(n) == n * TicksPerDay

monthMap ==
  [m \in {"Jan", "Feb", "Mar", "Apr", "May", "Jun", "Jul", "Aug", "Sep", "Oct", "Nov", "Dec"} |->
     CASE m = "Jan" -> 0 [] m = "Feb" -> 1 [] m = "Mar" -> 2 [] m = "Apr" -> 3
       [] m = "May" -> 4 [] m = "Jun" -> 5 [] m = "Jul" -> 6 [] m = "Aug" -> 7
       [] m = "Sep" -> 8 [] m = "Oct" -> 9 [] m = "Nov" -> 10 [] m = "Dec" -> 11]

\* new Date(t).getFullYear(), in years since the epoch
getFullYear(t) == (t \div TicksPerDay) \div YearDays

\* new Date(year, month, day).getTime(): local midnight of that day
DateTime(year, month, day) == Days(year * YearDays + CumDays[month + 1] + day - 1)

\* "d", "w", "mo": the units parseSimplify tells apart
UnitD == <<100>>
UnitW == <<119>>
UnitMo == <<109, 111>>

\* date cell contents: three letters and a number (Source A), a number and a unit
\* (Source B), or neither
MonthDay(mon, day) == [k |-> "monthday", word |-> mon, num |-> day, unit |-> <<>>]
Rel(value, unit) == [k |-> "rel", word |-> "", num |-> value, unit |-> unit]
NoDate == [k |-> "none", word |-> "", num |-> 0, unit |-> <<>>]

\* the Source A date with a year-boundary correction: a day that would lie in the
\* future is taken from the previous year
VanshCreatedAt_PreviousYearIfFuture(cell, t) ==
  IF cell.k = "monthday" /\ cell.word \in DOMAIN monthMap
  THEN IF DateTime(getFullYear(t), monthMap[cell.word], cell.num) > t
       THEN DateTime(getFullYear(t) - 1, monthMap[cell.word], cell.num)
       ELSE DateTime(getFullYear(t), monthMap[cell.word], cell.num)
  ELSE t

\* Source A: /([A-Za-z]{3})\s+(\d{1,2})/ against the month table, else now
VanshCreatedAt(cell, t) ==
  IF cell.k = "monthday" /\ cell.word \in DOMAIN monthMap
  THEN DateTime(getFullYear(t), monthMap[cell.word], cell.num)
  ELSE t

\* the Source B date with the current time as the default, as in Source A
SimplifyCreatedAt_DefaultNow(cell, t) ==
  IF cell.k = "rel"
  THEN LET value == cell.num
           unit == toLowerCase(cell.unit)
           daysAgo == IF unit = UnitD THEN value
                      ELSE IF unit = UnitW THEN value * WeekDays
                      ELSE IF unit = UnitMo THEN value * MonthDays
                      ELSE value * MonthDays
       IN t - Days(daysAgo)
  ELSE t

\* the Source B date with a unit other than d, w and mo counted in days
SimplifyCreatedAt_OtherUnitAsDays(cell, t) ==
  IF cell.k = "rel"
  THEN LET value == cell.num
           unit == toLowerCase(cell.unit)
           daysAgo == IF unit = UnitD THEN value
                      ELSE IF unit = UnitW THEN value * WeekDays
                      ELSE IF unit = UnitMo THEN value * MonthDays
                      ELSE value
       IN t - Days(daysAgo)
  ELSE t - Days(DefaultAgeDays)

\* Source B: /(\d+)\s*([a-zA-Z]+)/, else 180 days ago
SimplifyCreatedAt(cell, t) ==
  IF cell.k = "rel"
  THEN LET value == cell.num
           unit == toLowerCase(cell.unit)
           daysAgo == IF unit = UnitD THEN value
                      ELSE IF unit = UnitW THEN value * WeekDays
                      ELSE IF unit = UnitMo THEN value * MonthDays
                      ELSE value * MonthDays
       IN t - Days(daysAgo)
  ELSE t - Days(DefaultAgeDays)

-----------------------------------------------------------------------------
(* Raw content: a sequence of lines.                                        *)
(*   "tr":   a five-cell HTML table row                                     *)
(*   "md":   a line that starts with "|" and holds no "---"                 *)
(*   "text": any other line                                                 *)

\* company cell: its text with tags stripped, and at most one anchor
Cell1(text, anchor) == [text |-> text, anchor |-> anchor]
Anchor(href, text) == [href |-> href, text |-> text]
\* an anchor of the fourth cell: its target and whether its label holds "Apply"
Anchor4(href, apply) == [href |-> href, apply |-> apply]

Tr(c1, title, location, anchors4, date) ==
  [kind |-> "tr", c1 |-> c1, title |-> title, location |-> location,
   anchors4 |-> anchors4, date |-> date, rest |-> <<>>]

\* a cell after the third of a markdown row: the links in it and its date token
MdCell(hrefs, date) == [hrefs |-> hrefs, date |-> date]

\* the non-empty cells of a markdown row: company, title, location, then rest
Md(company, title, location, rest) ==
  [kind |-> "md", c1 |-> Cell1(company, <<>>), title |-> title, location |-> location,
   anchors4 |-> <<>>, date |-> NoDate, rest |-> rest]

TextLine == [kind |-> "text", c1 |-> Cell1(<<>>, <<>>), title |-> <<>>, location |-> "",
             anchors4 |-> <<>>, date |-> NoDate, rest |-> <<>>]

Internship(company, title, location, applicationLink, createdAt) ==
  [company |-> company, title |-> title, location |-> location,
   applicationLink |-> applicationLink, createdAt |-> createdAt]

\* the rejection test without the recency condition
Rejected_NoRecency(company, title, applicationLink, createdAt, t) ==
  \/ includes(toLowerCase(company), NeedleCompany)
  \/ includes(toLowerCase(company), NeedleName)
  \/ trim(company) = <<>>
  \/ trim(title) = <<>>
  \/ trim(applicationLink) = <<>>

\* the row-rejection test shared by both extractors and both strategies
Rejected(company, title, applicationLink, createdAt, t) ==
  \/ includes(toLowerCase(company), NeedleCompany)
  \/ includes(toLowerCase(company), NeedleName)
  \/ trim(company) = <<>>
  \/ trim(title) = <<>>
  \/ trim(applicationLink) = <<>>
  \/ createdAt < t - Days(RetentionDays)

\* the primary loop body taking the fourth cell's link before the company cell's
VanshRow_FourthCellFirst(r, lastCompany, internships, t) ==
  LET hasLink == Len(r.c1.anchor) > 0
      link1 == IF hasLink THEN r.c1.anchor[1].href ELSE <<>>
      company == IF hasLink THEN trim(r.c1.anchor[1].text) ELSE trim(r.c1.text)
      title == removeEmojis(trim(r.title))
      applicationLink == IF Len(r.anchors4) > 0 THEN r.anchors4[1].href ELSE link1
      createdAt == VanshCreatedAt(r.date, t)
      actualCompany == IF trim(company) = Marker /\ lastCompany # <<>>
                       THEN lastCompany ELSE trim(company)
      last == IF trim(company) # Marker THEN trim(company) ELSE lastCompany
  IN IF Rejected(company, title, applicationLink, createdAt, t)
     THEN <<lastCompany, internships>>
     ELSE <<last,
            Append(internships,
                   Internship(actualCompany, trim(title), r.location,
                              trim(applicationLink), createdAt))>>

\* one iteration of parseVansh's primary loop: <<lastCompany', internships'>>
VanshRow(r, lastCompany, internships, t) ==
  LET hasLink == Len(r.c1.anchor) > 0
      link1 == IF hasLink THEN r.c1.anchor[1].href ELSE <<>>
      company == IF hasLink THEN trim(r.c1.anchor[1].text) ELSE trim(r.c1.text)
      title == removeEmojis(trim(r.title))
      applicationLink == IF link1 = <<>> /\ Len(r.anchors4) > 0
                         THEN r.anchors4[1].href ELSE link1
      createdAt == VanshCreatedAt(r.date, t)
      actualCompany == IF trim(company) = Marker /\ lastCompany # <<>>
                       THEN lastCompany ELSE trim(company)
      last == IF trim(company) # Marker THEN trim(company) ELSE lastCompany
  IN IF Rejected(company, title, applicationLink, createdAt, t)
     THEN <<lastCompany, internships>>
     ELSE <<last,
            Append(internships,
                   Internship(actualCompany, trim(title), r.location,
                              trim(applicationLink), createdAt))>>

RECURSIVE VanshPrimary(_, _, _, _, _)
VanshPrimary(content, i, lastCompany, internships, t) ==
  IF i > Len(content) THEN internships
  ELSE IF content[i].kind # "tr"
       THEN VanshPrimary(content, i + 1, lastCompany, internships, t)
       ELSE LET st == VanshRow(content[i], lastCompany, internships, t)
            IN VanshPrimary(content, i + 1, st[1], st[2], t)

\* String.replace(/\[|\]/g, "")
RemoveBrackets(s) == SelectSeq(s, LAMBDA c : c \notin {91, 93})

\* the last link found in the cells after the third (the loop over j keeps the last match)
LastHref(rest, j, applicationLink) ==
  LET withLink == {k \in j..Len(rest) : Len(rest[k].hrefs) > 0}
  IN IF withLink = {} THEN applicationLink
     ELSE rest[CHOOSE k \in withLink : \A l \in withLink : l <= k].hrefs[1]

\* one markdown row of parseVansh's fallback loop:
\* [threw, lastCompany, internships]; cells[4] is undefined in a row of 3 or 4 cells
\* and createdCell.match then raises a TypeError
VanshLine(r, lastCompany, internships, t) ==
  LET company0 == r.c1.text
      title == removeEmojis(r.title)
      applicationLink == LastHref(r.rest, 1, <<>>)
      company == IF company0 = Marker /\ lastCompany # <<>> THEN lastCompany ELSE company0
      last == IF company0 # Marker THEN company0 ELSE lastCompany
  IN IF Len(r.rest) < 2
     THEN [threw |-> TRUE, lastCompany |-> last, internships |-> internships]
     ELSE LET createdAt == VanshCreatedAt(r.rest[2].date, t)
          IN IF Rejected(company, title, applicationLink, createdAt, t)
             THEN [threw |-> FALSE, lastCompany |-> last, internships |-> internships]
             ELSE [threw |-> FALSE, lastCompany |-> last,
                   internships |->
                     Append(internships,
                            Internship(RemoveBrackets(company), RemoveBrackets(title),
                                       r.location, applicationLink, createdAt))]

RECURSIVE VanshFallback(_, _, _, _, _)
VanshFallback(content, i, lastCompany, internships, t) ==
  IF i > Len(content) THEN [ok |-> TRUE, internships |-> internships]
  ELSE IF content[i].kind # "md"
       THEN VanshFallback(content, i + 1, lastCompany, internships, t)
       ELSE LET st == VanshLine(content[i], lastCompany, internships, t)
            IN IF st.threw THEN [ok |-> FALSE, internships |-> <<>>]
               ELSE VanshFallback(content, i + 1, st.lastCompany, st.internships, t)

\* parseVansh(content) evaluated at time t: [ok, internships]; ok = FALSE when it throws
parseVansh(content, t) ==
  LET primary == VanshPrimary(content, 1, <<>>, <<>>, t)
  IN IF Len(primary) = 0
     THEN VanshFallback(content, 1, <<>>, <<>>, t)
     ELSE [ok |-> TRUE, internships |-> primary]

\* the href captured by /<a[^>]*href="([^"]*)"[^>]*>.*?Apply.*?<\/a>/ in the fourth
\* cell: the match starts at the first anchor and runs on to the first "Apply"
ApplyLink(anchors4) ==
  IF \E j \in 1..Len(anchors4) : anchors4[j].apply THEN <<anchors4[1].href>> ELSE <<>>

\* one iteration of parseSimplify's loop: <<lastCompany', internships'>>
SimplifyRow(r, lastCompany, internships, t) ==
  LET hasLink == Len(r.c1.anchor) > 0
      company == IF hasLink THEN trim(r.c1.anchor[1].text) ELSE trim(r.c1.text)
      title == removeEmojis(trim(r.title))
      applyLinkMatch == ApplyLink(r.anchors4)
      applicationLink == IF Len(applyLinkMatch) > 0 THEN applyLinkMatch[1]
                         ELSE IF hasLink THEN r.c1.anchor[1].href ELSE <<>>
      createdAt == SimplifyCreatedAt(r.date, t)
      actualCompany == IF trim(company) = Marker /\ lastCompany # <<>>
                       THEN lastCompany ELSE trim(company)
      last == IF trim(company) # Marker THEN trim(company) ELSE lastCompany
  IN IF Rejected(company, title, applicationLink, createdAt, t)
     THEN <<lastCompany, internships>>
     ELSE <<last,
            Append(internships,
                   Internship(actualCompany, trim(title), r.location,
                              trim(applicationLink), createdAt))>>

RECURSIVE SimplifyLoop(_, _, _, _, _)
SimplifyLoop(content, i, lastCompany, internships, t) ==
  IF i > Len(content) THEN internships
  ELSE IF content[i].kind # "tr"
       THEN SimplifyLoop(content, i + 1, lastCompany, internships, t)
       ELSE LET st == SimplifyRow(content[i], lastCompany, internships, t)
            IN SimplifyLoop(content, i + 1, st[1], st[2], t)

\* parseSimplify(content) evaluated at time t: [ok, internships]
parseSimplify(content, t) ==
  [ok |-> TRUE, internships |-> SimplifyLoop(content, 1, <<>>, <<>>, t)]

-----------------------------------------------------------------------------
(* The opportunities table: a sequence of documents in insertion order; the *)
(* document id is the position of the insert.                               *)

\* the duplicate test with the company compared without regard to letter case
SameKey_IgnoreCase(s, opportunity) ==
  toLowerCase(s.company) = toLowerCase(opportunity.company) /\ s.title = opportunity.title

\* the duplicate test of the filter: same company and same title, by ===
SameKey(s, opportunity) ==
  s.company = opportunity.company /\ s.title = opportunity.title

\* the filter with each candidate tested against the table as it grows: the existing
\* postings and the candidates of the batch kept so far
newOpportunities_Sequential(allExistingOpportunities, opportunities) ==
  LET kept[n \in 0..Len(opportunities)] ==
        IF n = 0 THEN <<>>
        ELSE LET seen == allExistingOpportunities \o kept[n - 1]
             IN IF \E i \in 1..Len(seen) : SameKey(seen[i], opportunities[n])
                THEN kept[n - 1]
                ELSE Append(kept[n - 1], opportunities[n])
  IN kept[Len(opportunities)]

newOpportunities(allExistingOpportunities, opportunities) ==
  SelectSeq(opportunities,
            LAMBDA opportunity :
              ~\E i \in 1..Len(allExistingOpportunities) :
                 SameKey(allExistingOpportunities[i], opportunity))

\* opportunity.createdAt || now
CreatedAtOr(createdAt, t) == IF createdAt = Undefined \/ createdAt = 0 THEN t ELSE createdAt

\* the documents the inserts of one call create, in the order of the batch
InsertedDocs(existing, opportunities, source, t) ==
  LET new == newOpportunities(existing, opportunities)
  IN [k \in 1..Len(new) |->
        [id |-> Len(existing) + k,
         company |-> new[k].company,
         title |-> new[k].title,
         location |-> new[k].location,
         link |-> new[k].applicationLink,
         source |-> source,
         createdAt |-> CreatedAtOr(new[k].createdAt, t)]]

\* an upsert: a candidate that matches an existing document overwrites its fields
addOpportunities_Upsert(existing, opportunities, source, t) ==
  LET Hit(doc) == {k \in 1..Len(opportunities) : SameKey(doc, opportunities[k])}
      Patch(doc) ==
        IF Hit(doc) = {} THEN doc
        ELSE LET o == opportunities[CHOOSE k \in Hit(doc) : \A l \in Hit(doc) : l <= k]
             IN [doc EXCEPT !.location = o.location, !.link = o.applicationLink,
                            !.source = source, !.createdAt = CreatedAtOr(o.createdAt, t)]
  IN [i \in 1..Len(existing) |-> Patch(existing[i])]
       \o InsertedDocs(existing, opportunities, source, t)

\* the table after addOpportunities(opportunities, source) run at time t
addOpportunities(existing, opportunities, source, t) ==
  existing \o InsertedDocs(existing, opportunities, source, t)

\* the application addSuggestionToApplications inserts for an opportunity
NewApplication(opportunity, userId, t) ==
  [company |-> opportunity.company, title |-> opportunity.title, userId |-> userId,
   status |-> "interested", link |-> opportunity.link, lastUpdated |-> t,
   opportunityId |-> opportunity.id]

\* the company of every document, repeats included
getCompanies_NoDedupe(opportunities) ==
  [i \in 1..Len(opportunities) |-> opportunities[i].company]

\* [...new Set(opportunities.map((s) => s.company))]: first occurrences, in order
getCompanies(opportunities) ==
  LET first == {i \in 1..Len(opportunities) :
                  \A j \in 1..(i - 1) : opportunities[j].company # opportunities[i].company}
      F[i \in 0..Len(opportunities)] ==
        IF i = 0 THEN <<>>
        ELSE IF i \in first THEN Append(F[i - 1], opportunities[i].company) ELSE F[i - 1]
  IN F[Len(opportunities)]

-----------------------------------------------------------------------------
(* getOpportunities *)

Reverse(s) == [i \in 1..Len(s) |-> s[Len(s) + 1 - i]]

\* Array.prototype.sort((a, b) => b.createdAt - a.createdAt): stable, newest first
SortByCreatedAtDesc(s) ==
  LET Ins(sorted, x) ==
        LET pos == Cardinality({i \in 1..Len(sorted) : sorted[i].createdAt >= x.createdAt})
        IN SubSeq(sorted, 1, pos) \o <<x>> \o SubSeq(sorted, pos + 1, Len(sorted))
      F[i \in 0..Len(s)] == IF i = 0 THEN <<>> ELSE Ins(F[i - 1], s[i])
  IN F[Len(s)]

\* an index read with .order("desc"): createdAt descending, then newest document first
OrderDesc(s) == SortByCreatedAtDesc(Reverse(s))

\* a company lookup that ignores letter case
ByCompany_IgnoreCase(opportunities, company) ==
  SelectSeq(opportunities, LAMBDA o : toLowerCase(o.company) = toLowerCase(company))

\* withIndex("by_company", q => q.eq("company", company)).collect()
ByCompany(opportunities, company) ==
  SelectSeq(opportunities, LAMBDA o : o.company = company)

\* allResults.flat(): the per-company results in the order of args.company
RECURSIVE Flatten(_, _)
Flatten(opportunities, company) ==
  IF company = <<>> THEN <<>>
  ELSE ByCompany(opportunities, Head(company)) \o Flatten(opportunities, Tail(company))

\* Array.prototype.slice(start, end)
slice(s, start, end) ==
  LET n == Len(s)
      from == IF start < 0 THEN (IF n + start < 0 THEN 0 ELSE n + start)
              ELSE IF start > n THEN n ELSE start
      to == IF end < 0 THEN (IF n + end < 0 THEN 0 ELSE n + end)
            ELSE IF end > n THEN n ELSE end
  IN IF to <= from THEN <<>> ELSE SubSeq(s, from + 1, to)

\* a cursor is <<>> (null or "") or the decimal string of an offset
IsDigit(c) == c >= 48 /\ c <= 57

\* what parseInt gives for a string with no leading digits
NaN == "NaN"

\* parseInt(string): an optional "-" and the longest run of decimal digits after it
parseInt(string) ==
  LET neg == string # <<>> /\ string[1] = 45
      body == IF neg THEN Tail(string) ELSE string
      n == Cardinality({i \in 1..Len(body) : \A j \in 1..i : IsDigit(body[j])})
      val[i \in 0..n] == IF i = 0 THEN 0 ELSE 10 * val[i - 1] + (body[i] - 48)
  IN IF n = 0 THEN NaN ELSE IF neg THEN 0 - val[n] ELSE val[n]

\* Number.prototype.toString() of an integer
RECURSIVE toString(_)
toString(n) ==
  IF n < 0 THEN <<45>> \o toString(0 - n)
  ELSE IF n < 10 THEN <<48 + n>>
  ELSE toString(n \div 10) \o <<48 + (n % 10)>>

\* the slice taken one element too long
CompanyPage_InclusiveEnd(flattened, paginationOpts) ==
  LET start == IF paginationOpts.cursor # <<>> THEN parseInt(paginationOpts.cursor) ELSE 0
      end == start + paginationOpts.numItems
  IN [page |-> slice(flattened, start, end + 1),
      isDone |-> end >= Len(flattened),
      continueCursor |-> IF end < Len(flattened) THEN toString(end) ELSE <<>>]

\* the manual pagination of the company filter mode
CompanyPage(flattened, paginationOpts) ==
  LET start == IF paginationOpts.cursor # <<>> THEN parseInt(paginationOpts.cursor) ELSE 0
      end == start + paginationOpts.numItems
  IN [page |-> slice(flattened, start, end),
      isDone |-> end >= Len(flattened),
      continueCursor |-> IF end < Len(flattened) THEN toString(end) ELSE <<>>]

\* .paginate(paginationOpts) of the database: the next numItems documents after the cursor
paginate(ordered, paginationOpts) ==
  LET start == IF paginationOpts.cursor # <<>> THEN parseInt(paginationOpts.cursor) ELSE 0
      end == start + paginationOpts.numItems
  IN [page |-> slice(ordered, start, end),
      isDone |-> end >= Len(ordered),
      continueCursor |-> toString(end)]

\* withSearchIndex("search_title", q => q.search("title", search)): the documents whose
\* title holds the term, letter case ignored
SearchTitle(opportunities, search) ==
  SelectSeq(opportunities, LAMBDA o : includes(toLowerCase(o.title), toLowerCase(search)))

\* an optional string argument is used when it is truthy: present and not ""
Truthy(str) == str # <<>>

\* the branches tested in another order: source before search
QueryMode_SourceFirst(args) ==
  IF args.source # "" THEN "source"
  ELSE IF Truthy(args.search) THEN "search"
  ELSE IF Len(args.company) > 0 THEN "company"
  ELSE "default"

\* which branch of the handler runs; args.company = <<>> is an absent or empty array
QueryMode(args) ==
  IF Truthy(args.search) THEN "search"
  ELSE IF args.source # "" THEN "source"
  ELSE IF Len(args.company) > 0 THEN "company"
  ELSE "default"

getOpportunities(opportunities, args) ==
  LET mode == QueryMode(args)
  IN IF mode = "search"
     THEN paginate(SearchTitle(opportunities, args.search), args.paginationOpts)
     ELSE IF mode = "source"
     THEN paginate(OrderDesc(SelectSeq(opportunities, LAMBDA o : o.source = args.source)),
                   args.paginationOpts)
     ELSE IF mode = "company"
     THEN CompanyPage(SortByCreatedAtDesc(Flatten(opportunities, args.company)),
                      args.paginationOpts)
     ELSE paginate(OrderDesc(opportunities), args.paginationOpts)

-----------------------------------------------------------------------------
(* Inputs *)

\* the instant the model starts at: 8 October, 00:00, of year 56 after the epoch
StartTime == DateTime(56, 9, 8)

\* candidates of direct addOpportunities calls
Candidates ==
  { Internship(Acme, SWE, "NYC", LinkX, StartTime - Days(1)),
    Internship(Acme, SWE, "Remote", LinkY, Undefined),
    Internship(AcmeLower, SWE, "NYC", LinkX, StartTime - Days(2)),
    Internship(Acme, Data, Absent, NoString, StartTime - Days(3)) }

RECURSIVE SeqsUpTo(_, _)
SeqsUpTo(S, n) ==
  IF n = 0 THEN {<<>>}
  ELSE LET shorter == SeqsUpTo(S, n - 1)
       IN shorter \cup {Append(q, x) : q \in {r \in shorter : Len(r) = n - 1}, x \in S}

Batches == SeqsUpTo(Candidates, MaxBatch)

\* arguments of getOpportunities
\* the company filter the list view builds: handleCompanySelect adds a company only
\* when the array does not hold it, so the array never repeats a value
CompanySelections == {<<>>, <<Acme>>, <<Globex, Acme>>, <<AcmeLower, Acme>>}

\* (an absent optional argument and an empty one take the same branch of the handler:
\* <<>> and "" stand for both)
QueryArgs ==
  [search : {<<>>, SweLower},
   source : {"", SourceA},
   company : CompanySelections,
   paginationOpts : [cursor : {<<>>, toString(1)}, numItems : 1..MaxNumItems]]

NoCall == [made |-> FALSE, existing |-> <<>>, opportunities |-> <<>>, source |-> "", at |-> 0]

NoArgs == [search |-> <<>>, source |-> "", company |-> <<>>,
           paginationOpts |-> [cursor |-> <<>>, numItems |-> 0]]

NoResult == [page |-> <<>>, isDone |-> TRUE, continueCursor |-> <<>>]

\* a caller following continueCursor in the company filter mode: the filter and page
\* size it passes, the cursor it passes next, the first pages it was given, how many
\* requests it made (counted up to the pages remembered, and whether odd or even)
NoTraversal == [company |-> <<>>, numItems |-> 0, cursor |-> <<>>, pages |-> <<>>,
                isDone |-> FALSE, requests |-> 0, parity |-> 0, inserts |-> 0]

NoQuery == [kind |-> "none", args |-> NoArgs, result |-> NoResult, companies |-> <<>>]

\* a repository file: present = FALSE when the API answers with neither content nor
\* download_url
File(content) == [present |-> TRUE, content |-> content]
NoFile == [present |-> FALSE, content |-> <<>>]

NoUpstream == [s \in Sources |-> NoFile]

\* one invocation of GET: where it stands, what it has read, extracted and inserted
\* (resolved: the createdAt computed for each line of a file, before the rejection test)
IdleRun ==
  [pc |-> "idle", error |-> "", failedSource |-> "", steps |-> {},
   file |-> NoUpstream,
   parsed |-> [s \in Sources |-> <<>>], parsedAt |-> [s \in Sources |-> 0],
   resolved |-> [s \in Sources |-> <<>>],
   inserted |-> [s \in Sources |-> <<>>], insertedAt |-> [s \in Sources |-> 0]]

\* the invocation before the current one: how it ended, what it read, the table it left
NoPrev == [made |-> FALSE, pc |-> "idle", file |-> NoUpstream, corpus |-> <<>>]

\* rows of Source A
RowAcmeSep24 ==
  Tr(Cell1(Acme, <<Anchor(LinkX, Acme)>>), SWE, "NYC", <<Anchor4(LinkY, FALSE)>>,
     MonthDay("Sep", 24))
RowMarkerOct5 ==
  Tr(Cell1(Marker, <<>>), Data, "NYC", <<Anchor4(LinkY, FALSE)>>, MonthDay("Oct", 5))
RowGlobexOct6 ==
  Tr(Cell1(Globex, <<>>), FireSWE, "SF", <<Anchor4(LinkX, FALSE)>>, MonthDay("Oct", 6))
RowHeader ==
  Tr(Cell1(CompanyHeader, <<>>), SWE, "Location", <<Anchor4(LinkX, FALSE)>>, NoDate)
LineThreeCells == Md(Acme, SWE, "NYC", <<>>)
LineFiveCells ==
  Md(Globex, ML, "SF", <<MdCell(<<LinkX>>, NoDate), MdCell(<<>>, MonthDay("Oct", 6))>>)

\* rows of Source B
RowAcme2w ==
  Tr(Cell1(Acme, <<Anchor(LinkX, Acme)>>), SWE, "NYC", <<Anchor4(LinkY, TRUE)>>, Rel(2, UnitW))
RowGlobex1d ==
  Tr(Cell1(Globex, <<>>), ML, "SF", <<Anchor4(LinkY, TRUE)>>, Rel(1, UnitD))
RowGlobex2w ==
  Tr(Cell1(Globex, <<>>), ML, "SF", <<Anchor4(LinkY, TRUE)>>, Rel(2, UnitW))
RowGlobexSwe1d ==
  Tr(Cell1(Globex, <<>>), SWE, "SF", <<Anchor4(LinkY, TRUE)>>, Rel(1, UnitD))
RowStale20mo ==
  Tr(Cell1(Acme, <<>>), Data, "NYC", <<Anchor4(LinkY, TRUE)>>, Rel(20, UnitMo))

Upstream(a, b) == [s \in Sources |-> IF s = SourceA THEN a ELSE b]

\* what the two README files may hold
UpstreamChoices ==
  { Upstream(File(<<RowAcmeSep24, RowMarkerOct5>>), File(<<RowAcme2w>>)),
    Upstream(File(<<RowGlobexOct6, RowGlobexOct6>>), File(<<RowGlobex2w, RowStale20mo>>)),
    Upstream(File(<<TextLine, LineThreeCells>>), File(<<RowGlobex1d>>)),
    Upstream(File(<<RowHeader, RowAcmeSep24, LineFiveCells>>), File(<<>>)),
    Upstream(NoFile, File(<<RowAcme2w>>)),
    Upstream(File(<<RowGlobexOct6>>), NoFile),
    Upstream(File(<<RowGlobexOct6, RowGlobexOct6>>), File(<<RowGlobexSwe1d>>)) }

-----------------------------------------------------------------------------
(* The public functions of convex/opportunities.ts, called directly *)

Init ==
  /\ corpus = <<>>
  /\ applications = <<>>
  /\ now = StartTime
  /\ upstream = NoUpstream
  /\ run = IdleRun
  /\ run2 = IdleRun
  /\ runs = 0
  /\ prev = NoPrev
  /\ lastCall = NoCall
  /\ lastQuery = NoQuery
  /\ normalized = NoText
  /\ traversal = NoTraversal

\* no response is waiting to be delivered
Ready == ~lastCall.made /\ lastQuery.kind = "none"

AddOpportunitiesCall ==
  /\ Ready
  /\ \E opportunities \in Batches, source \in Sources :
       /\ Len(corpus) + Len(opportunities) <= MaxCorpus
       /\ corpus' = addOpportunities(corpus, opportunities, source, now)
       /\ lastCall' = [made |-> TRUE, existing |-> corpus, opportunities |-> opportunities,
                       source |-> source, at |-> now]
  /\ lastQuery' = NoQuery
  /\ UNCHANGED <<traversal, normalized, run2, applications, now, upstream, run, runs, prev>>

GetOpportunitiesCall ==
  /\ Ready
  /\ \E args \in QueryArgs :
       lastQuery' = [kind |-> "getOpportunities", args |-> args,
                     result |-> getOpportunities(corpus, args), companies |-> <<>>]
  /\ lastCall' = NoCall
  /\ UNCHANGED <<traversal, normalized, run2, corpus, applications, now, upstream, run, runs, prev>>

GetCompaniesCall ==
  /\ Ready
  /\ lastQuery' = [kind |-> "getCompanies", args |-> NoArgs, result |-> NoResult,
                   companies |-> getCompanies(corpus)]
  /\ lastCall' = NoCall
  /\ UNCHANGED <<traversal, normalized, run2, corpus, applications, now, upstream, run, runs, prev>>

\* a missing opportunity or an unauthenticated caller throws before the insert
AddSuggestionToApplicationsCall ==
  /\ Len(applications) < MaxApplications
  /\ \E opportunityId \in {1, Len(corpus) + 1}, userId \in {"", "user1"} :
       applications' =
         IF opportunityId \in 1..Len(corpus) /\ userId # ""
         THEN Append(applications, NewApplication(corpus[opportunityId], userId, now))
         ELSE applications
  /\ UNCHANGED <<traversal, normalized, run2, corpus, now, upstream, run, runs, prev, lastCall, lastQuery>>

\* the response of the last call reaches its caller
Respond ==
  /\ ~Ready
  /\ lastCall' = NoCall
  /\ lastQuery' = NoQuery
  /\ UNCHANGED <<traversal, normalized, run2, corpus, applications, now, upstream, run, runs, prev>>

Next ==
  \/ Respond
  \/ AddOpportunitiesCall
  \/ GetOpportunitiesCall
  \/ GetCompaniesCall
  \/ AddSuggestionToApplicationsCall

Spec == Init /\ [][Next]_vars

-----------------------------------------------------------------------------
(* The cron route: GET of app/api/cron/scrape/route.ts, one action per await *)

InitIngest ==
  /\ corpus = <<>>
  /\ applications = <<>>
  /\ now = StartTime
  /\ upstream \in UpstreamChoices
  /\ run = IdleRun
  /\ run2 = IdleRun
  /\ runs = 0
  /\ prev = NoPrev
  /\ lastCall = NoCall
  /\ lastQuery = NoQuery
  /\ normalized = NoText
  /\ traversal = NoTraversal

\* the clock advances
Tick ==
  /\ now < StartTime + MaxTicks
  /\ run.pc \notin {"done", "failed"} \/ runs < MaxRuns
  /\ now' = now + 1
  /\ UNCHANGED <<traversal, normalized, run2, corpus, applications, upstream, run, runs, prev, lastCall, lastQuery>>

Running == run.pc \notin {"idle", "done", "failed"}

\* the maintainers of the two repositories edit their README files
UpstreamChange ==
  /\ ~Running
  /\ runs > 0 /\ runs < MaxRuns
  /\ upstream' \in UpstreamChoices \ {upstream}
  /\ UNCHANGED <<traversal, normalized, run2, corpus, applications, now, run, runs, prev, lastCall, lastQuery>>

\* the scheduler calls GET
StartRun ==
  /\ ~Running
  /\ runs < MaxRuns
  /\ runs' = runs + 1
  /\ prev' = IF run.pc = "idle" THEN prev
             ELSE [made |-> TRUE, pc |-> run.pc, file |-> run.file, corpus |-> corpus]
  /\ run' = [IdleRun EXCEPT !.pc = "fetchVansh"]
  /\ lastCall' = NoCall
  /\ UNCHANGED <<traversal, normalized, run2, corpus, applications, now, upstream, lastQuery>>

\* an exception that is swallowed: GET goes on to its inserts
Throw_ContinueToInsert(r, error, source) ==
  [r EXCEPT !.pc = "insertVansh", !.error = error, !.failedSource = source]

Throw(r, error, source) ==
  [r EXCEPT !.pc = "failed", !.error = error, !.failedSource = source]

\* octokit.request (and the download), then the extractor, for one source;
\* an exception of either leaves GET
FetchAndParse(r, source, file, requestFails, t, next) ==
  IF requestFails THEN Throw(r, "fetch", source)
  ELSE IF ~file.present THEN Throw(r, "missing", source)
  ELSE LET parsed == IF source = SourceA THEN parseVansh(file.content, t)
                     ELSE parseSimplify(file.content, t)
       IN IF ~parsed.ok
          THEN Throw([r EXCEPT !.steps = @ \cup {<<"fetch", source>>},
                               !.file[source] = file], "extract", source)
          ELSE [r EXCEPT !.pc = next,
                         !.steps = @ \cup {<<"fetch", source>>, <<"extract", source>>},
                         !.file[source] = file,
                         !.parsed[source] = parsed.internships,
                         !.parsedAt[source] = t]

FetchVansh ==
  /\ run.pc = "fetchVansh"
  /\ \E requestFails \in BOOLEAN :
       run' = FetchAndParse(run, SourceA, upstream[SourceA], requestFails, now, "fetchSimplify")
  /\ UNCHANGED <<traversal, normalized, run2, corpus, applications, now, upstream, runs, prev, lastCall, lastQuery>>

FetchSimplify ==
  /\ run.pc = "fetchSimplify"
  /\ \E requestFails \in BOOLEAN :
       run' = FetchAndParse(run, SourceB, upstream[SourceB], requestFails, now, "insertVansh")
  /\ UNCHANGED <<traversal, normalized, run2, corpus, applications, now, upstream, runs, prev, lastCall, lastQuery>>

\* convex.mutation(api.opportunities.addOpportunities, ...) for one source
Store(source, next) ==
  /\ corpus' = addOpportunities(corpus, run.parsed[source], source, now)
  /\ lastCall' = [made |-> TRUE, existing |-> corpus, opportunities |-> run.parsed[source],
                  source |-> source, at |-> now]
  /\ run' = [run EXCEPT !.pc = next,
                        !.steps = @ \cup {<<"insert", source>>},
                        !.inserted[source] = InsertedDocs(corpus, run.parsed[source], source, now),
                        !.insertedAt[source] = now]

InsertVansh ==
  /\ run.pc = "insertVansh"
  /\ Store(SourceA, "insertSimplify")
  /\ UNCHANGED <<traversal, normalized, run2, applications, now, upstream, runs, prev, lastQuery>>

InsertSimplify ==
  /\ run.pc = "insertSimplify"
  /\ Store(SourceB, "done")
  /\ UNCHANGED <<traversal, normalized, run2, applications, now, upstream, runs, prev, lastQuery>>

NextIngest ==
  \/ Tick
  \/ UpstreamChange
  \/ StartRun
  \/ FetchVansh
  \/ FetchSimplify
  \/ InsertVansh
  \/ InsertSimplify

Ingest == InitIngest /\ [][NextIngest]_vars

-----------------------------------------------------------------------------
(* Two invocations of GET that overlap: the scheduler calls the route again  *)
(* before the first call has returned.  Each addOpportunities call is one    *)
(* Convex mutation, a transaction of its own.                                *)

InitOverlap ==
  /\ corpus = <<>>
  /\ applications = <<>>
  /\ now = StartTime
  /\ upstream \in UpstreamChoices
  /\ run = [IdleRun EXCEPT !.pc = "fetchVansh"]
  /\ run2 = [IdleRun EXCEPT !.pc = "fetchVansh"]
  /\ runs = 2
  /\ prev = NoPrev
  /\ lastCall = NoCall
  /\ lastQuery = NoQuery
  /\ normalized = NoText
  /\ traversal = NoTraversal

OtherFetchVansh ==
  /\ run2.pc = "fetchVansh"
  /\ \E requestFails \in BOOLEAN :
       run2' = FetchAndParse(run2, SourceA, upstream[SourceA], requestFails, now,
                              "fetchSimplify")
  /\ UNCHANGED <<traversal, normalized, run, corpus, applications, now, upstream, runs, prev, lastCall, lastQuery>>

OtherFetchSimplify ==
  /\ run2.pc = "fetchSimplify"
  /\ \E requestFails \in BOOLEAN :
       run2' = FetchAndParse(run2, SourceB, upstream[SourceB], requestFails, now,
                              "insertVansh")
  /\ UNCHANGED <<traversal, normalized, run, corpus, applications, now, upstream, runs, prev, lastCall, lastQuery>>

OtherStore(source, next) ==
  /\ corpus' = addOpportunities(corpus, run2.parsed[source], source, now)
  /\ lastCall' = [made |-> TRUE, existing |-> corpus, opportunities |-> run2.parsed[source],
                  source |-> source, at |-> now]
  /\ run2' = [run2 EXCEPT !.pc = next,
                            !.steps = @ \cup {<<"insert", source>>},
                            !.inserted[source] =
                               InsertedDocs(corpus, run2.parsed[source], source, now),
                            !.insertedAt[source] = now]

OtherInsertVansh ==
  /\ run2.pc = "insertVansh"
  /\ OtherStore(SourceA, "insertSimplify")
  /\ UNCHANGED <<traversal, normalized, run, applications, now, upstream, runs, prev, lastQuery>>

OtherInsertSimplify ==
  /\ run2.pc = "insertSimplify"
  /\ OtherStore(SourceB, "done")
  /\ UNCHANGED <<traversal, normalized, run, applications, now, upstream, runs, prev, lastQuery>>

NextOverlap ==
  \/ FetchVansh
  \/ FetchSimplify
  \/ InsertVansh
  \/ InsertSimplify
  \/ OtherFetchVansh
  \/ OtherFetchSimplify
  \/ OtherInsertVansh
  \/ OtherInsertSimplify

Overlap == InitOverlap /\ [][NextOverlap]_vars

-----------------------------------------------------------------------------
(* The two extractors applied on their own to one README at one instant *)

\* "Name" (header row)
NameHeader == <<78, 97, 109, 101>>
\* U+1F525 alone: a title that is empty once its emoji are removed
Fire == <<128293>>
\* "W", "y"
UnitUpperW == <<87>>
UnitY == <<121>>

CompanyCells ==
  { Cell1(Acme, <<Anchor(LinkX, Acme)>>), Cell1(Globex, <<>>), Cell1(Marker, <<>>),
    Cell1(CompanyHeader, <<>>), Cell1(NameHeader, <<>>), Cell1(<<>>, <<>>) }

Titles == {SWE, FireSWE, Fire}

\* Source A date cells: 14 and 2 days before StartTime, long before it, after it,
\* a month the table does not hold, and no date
DatesA ==
  { MonthDay("Sep", 24), MonthDay("Oct", 6), MonthDay("Aug", 1), MonthDay("Dec", 28),
    MonthDay("sep", 24), MonthDay("Jan", 3), NoDate }

\* Source B date cells
DatesB ==
  { Rel(0, UnitD), Rel(1, UnitD), Rel(15, UnitD), Rel(2, UnitW), Rel(2, UnitUpperW),
    Rel(3, UnitW), Rel(1, UnitMo), Rel(20, UnitMo), Rel(0, UnitY), Rel(1, UnitY), NoDate,
    MonthDay("Oct", 6) }

\* every five-cell row of Source A the cells above make
RowsA ==
  { Tr(c1, title, "NYC", anchors4, date) :
      c1 \in CompanyCells, title \in Titles,
      anchors4 \in {<<>>, <<Anchor4(LinkY, FALSE)>>}, date \in DatesA }

\* every markdown line of five cells of Source A (fallback strategy)
LinesA ==
  { Md(c1.text, title, "NYC", <<MdCell(hrefs, NoDate), MdCell(<<>>, date)>>) :
      c1 \in CompanyCells \ {Cell1(<<>>, <<>>)}, title \in Titles,
      hrefs \in {<<>>, <<LinkY>>}, date \in DatesA }

\* every five-cell row of Source B
RowsB ==
  { Tr(c1, title, "NYC", anchors4, date) :
      c1 \in CompanyCells, title \in {SWE, Fire},
      anchors4 \in {<<>>, <<Anchor4(LinkY, TRUE)>>, <<Anchor4(LinkY, FALSE)>>,
                    <<Anchor4(LinkX, FALSE), Anchor4(LinkY, TRUE)>>},
      date \in DatesB }

RowStaleAug1 ==
  Tr(Cell1(Globex, <<>>), SWE, "SF", <<Anchor4(LinkX, FALSE)>>, MonthDay("Aug", 1))
LineAcmeOct6 ==
  Md(Acme, SWE, "NYC", <<MdCell(<<LinkX>>, NoDate), MdCell(<<>>, MonthDay("Oct", 6))>>)
LineHeader ==
  Md(CompanyHeader, SWE, "Location", <<MdCell(<<LinkX>>, NoDate), MdCell(<<>>, NoDate)>>)
LineMarkerOct5 ==
  Md(Marker, Data, "NYC", <<MdCell(<<LinkY>>, NoDate), MdCell(<<>>, MonthDay("Oct", 5))>>)
LineStaleAug1 ==
  Md(Globex, SWE, "SF", <<MdCell(<<LinkX>>, NoDate), MdCell(<<>>, MonthDay("Aug", 1))>>)
\* "[Acme](x.co)": a markdown company cell that holds a link
MdLinkAcme == <<91>> \o Acme \o <<93, 40>> \o LinkX \o <<41>>
\* a markdown line whose company cell holds a link to x.co and whose fourth cell
\* holds a hyperlink to y.co
LineLinkedAcmeOct6 ==
  [Md(MdLinkAcme, SWE, "NYC", <<MdCell(<<LinkY>>, NoDate), MdCell(<<>>, MonthDay("Oct", 6))>>)
     EXCEPT !.c1 = Cell1(MdLinkAcme, <<Anchor(LinkX, Acme)>>)]
RowMarker1d ==
  Tr(Cell1(Marker, <<>>), Data, "NYC", <<Anchor4(LinkY, TRUE)>>, Rel(1, UnitD))

\* lines of the READMEs of several lines
SeqLinesA ==
  { RowAcmeSep24, RowMarkerOct5, RowHeader, RowStaleAug1, TextLine,
    LineAcmeOct6, LineMarkerOct5, LineHeader, LineStaleAug1, LineThreeCells }
SeqLinesB == {RowAcme2w, RowGlobex1d, RowMarker1d, RowStale20mo, TextLine}

ContentsA ==
  SeqsUpTo(SeqLinesA, MaxLines) \cup {<<r>> : r \in RowsA \cup LinesA \cup {LineLinkedAcmeOct6}}
ContentsB == SeqsUpTo(SeqLinesB, MaxLines) \cup {<<r>> : r \in RowsB}

\* 8 October 00:00, one tick later, and 5 January of the next year
ExtractTimes == {StartTime, StartTime + 1, DateTime(57, 0, 5)}

InitExtract ==
  /\ corpus = <<>>
  /\ applications = <<>>
  /\ now \in ExtractTimes
  /\ upstream \in {Upstream(File(a), NoFile) : a \in ContentsA}
                    \cup {Upstream(NoFile, File(b)) : b \in ContentsB}
  /\ run = IdleRun
  /\ run2 = IdleRun
  /\ runs = 0
  /\ prev = NoPrev
  /\ lastCall = NoCall
  /\ lastQuery = NoQuery
  /\ normalized = NoText
  /\ traversal = NoTraversal

\* the createdAt each line of a file resolves to (0 for a line without a date cell)
ResolvedDates(source, content, t) ==
  [i \in 1..Len(content) |->
     IF content[i].kind = "tr"
     THEN IF source = SourceA THEN VanshCreatedAt(content[i].date, t)
          ELSE SimplifyCreatedAt(content[i].date, t)
     ELSE IF content[i].kind = "md" /\ source = SourceA /\ Len(content[i].rest) >= 2
     THEN VanshCreatedAt(content[i].rest[2].date, t)
     ELSE 0]

\* one extractor applied to one file
Extracted(r, source, file, t) ==
  LET parsed == IF source = SourceA THEN parseVansh(file.content, t)
                ELSE parseSimplify(file.content, t)
      seen == [r EXCEPT !.file[source] = file,
                        !.parsedAt[source] = t,
                        !.resolved[source] = ResolvedDates(source, file.content, t)]
  IN IF ~parsed.ok THEN Throw(seen, "extract", source)
     ELSE [seen EXCEPT !.pc = "done",
                       !.steps = @ \cup {<<"extract", source>>},
                       !.parsed[source] = parsed.internships]

ParseVanshCall ==
  /\ run.pc = "idle"
  /\ upstream[SourceA].present
  /\ run' = Extracted(run, SourceA, upstream[SourceA], now)
  /\ UNCHANGED <<traversal, normalized, run2, corpus, applications, now, upstream, runs, prev, lastCall, lastQuery>>

ParseSimplifyCall ==
  /\ run.pc = "idle"
  /\ upstream[SourceB].present
  /\ run' = Extracted(run, SourceB, upstream[SourceB], now)
  /\ UNCHANGED <<traversal, normalized, run2, corpus, applications, now, upstream, runs, prev, lastCall, lastQuery>>

NextExtract ==
  \/ ParseVanshCall
  \/ ParseSimplifyCall

Extract == InitExtract /\ [][NextExtract]_vars

-----------------------------------------------------------------------------
(* removeEmojis applied on its own to one text, and then to its own result *)

\* "A", " ", U+1F525 (outside the basic plane), U+2600 (inside it) and U+2B50, a
\* pictograph outside every range the expression lists
TextAlphabet == {65, 32, 128293, 9728, 11088}

Texts == SeqsUpTo(TextAlphabet, MaxText)

InitNormalize ==
  /\ corpus = <<>>
  /\ applications = <<>>
  /\ now = StartTime
  /\ upstream = NoUpstream
  /\ run = IdleRun
  /\ run2 = IdleRun
  /\ runs = 0
  /\ prev = NoPrev
  /\ lastCall = NoCall
  /\ lastQuery = NoQuery
  /\ normalized \in {[NoText EXCEPT !.input = s] : s \in Texts}
  /\ traversal = NoTraversal

RemoveEmojisCall ==
  /\ normalized.calls = 0
  /\ normalized' = [normalized EXCEPT !.output = removeEmojis(normalized.input), !.calls = 1]
  /\ UNCHANGED <<traversal, corpus, applications, now, upstream, run, run2, runs, prev, lastCall, lastQuery>>

RemoveEmojisAgain ==
  /\ normalized.calls = 1
  /\ normalized' = [normalized EXCEPT !.again = removeEmojis(normalized.output), !.calls = 2]
  /\ UNCHANGED <<traversal, corpus, applications, now, upstream, run, run2, runs, prev, lastCall, lastQuery>>

NextNormalize ==
  \/ RemoveEmojisCall
  \/ RemoveEmojisAgain

Normalize == InitNormalize /\ [][NextNormalize]_vars

-----------------------------------------------------------------------------
(* One caller paging through the company filter mode of getOpportunities *)

\* a posting of another company, next to the candidates of the direct calls
TraversalCandidates ==
  Candidates \cup {Internship(Globex, SWE, "NYC", LinkX, StartTime - Days(2)),
                   Internship(Globex, ML, "NYC", LinkY, Undefined)}

\* the page sizes passed: paginationOpts.numItems is any number, 0 included
PageSizes == 0..MaxNumItems

\* the pages remembered of one traversal
MaxPages == MaxCorpus + 2

InitTraverse ==
  /\ corpus \in {addOpportunities(<<>>, opportunities, SourceA, StartTime - 1) :
                   opportunities \in SeqsUpTo(TraversalCandidates, MaxCorpus)}
  /\ applications = <<>>
  /\ now = StartTime
  /\ upstream = NoUpstream
  /\ run = IdleRun
  /\ run2 = IdleRun
  /\ runs = 0
  /\ prev = NoPrev
  /\ lastCall = NoCall
  /\ lastQuery = NoQuery
  /\ normalized = NoText
  /\ traversal \in {[NoTraversal EXCEPT !.company = company, !.numItems = numItems] :
                      company \in CompanySelections \ {<<>>}, numItems \in PageSizes}

\* the next request of the traversal: the cursor is the continueCursor of the last one
NextPageCall ==
  /\ ~traversal.isDone
  /\ LET args == [search |-> <<>>, source |-> "", company |-> traversal.company,
                  paginationOpts |-> [cursor |-> traversal.cursor,
                                      numItems |-> traversal.numItems]]
         result == getOpportunities(corpus, args)
     IN traversal' =
          [traversal EXCEPT
             !.cursor = result.continueCursor,
             !.isDone = result.isDone,
             !.pages = IF Len(@) < MaxPages THEN Append(@, result.page) ELSE @,
             !.requests = IF @ < MaxPages THEN @ + 1 ELSE @,
             !.parity = 1 - @]
  /\ UNCHANGED <<corpus, applications, now, upstream, run, run2, runs, prev, lastCall,
                 lastQuery, normalized>>

\* addOpportunities called between two requests of the traversal
InsertBetweenPages ==
  /\ traversal.requests >= 1
  /\ ~traversal.isDone
  /\ traversal.inserts = 0
  /\ \E opportunity \in TraversalCandidates, source \in Sources :
       corpus' = addOpportunities(corpus, <<opportunity>>, source, now)
  /\ traversal' = [traversal EXCEPT !.inserts = 1]
  /\ UNCHANGED <<applications, now, upstream, run, run2, runs, prev, lastCall, lastQuery,
                 normalized>>

NextTraverse == NextPageCall

Traverse == InitTraverse /\ [][NextTraverse]_vars

\* the caller keeps requesting while it has not been told the traversal is done
TraverseFair == Traverse /\ WF_vars(NextPageCall)

NextTraverseIngest ==
  \/ NextPageCall
  \/ InsertBetweenPages

TraverseIngest == InitTraverse /\ [][NextTraverseIngest]_vars

-----------------------------------------------------------------------------
(* Claims *)

Keys(docs) == {<<docs[i].company, docs[i].title>> : i \in 1..Len(docs)}

\* C1: no two postings of the corpus share the same (company, title) pair, whatever
\* batches the ingestion runs have submitted, a batch that holds the same pair twice
\* included.
C1_NoDuplicateKeys ==
  \A i, j \in 1..Len(corpus) :
    (corpus[i].company = corpus[j].company /\ corpus[i].title = corpus[j].title) => i = j

\* C2: a run that completes on the upstream content the previous completed run read
\* inserts nothing: the corpus and the distinct-company list are what that run left.
C2_SecondRunInsertsNothing ==
  (run.pc = "done" /\ prev.made /\ prev.pc = "done" /\ prev.file = run.file)
    => /\ corpus = prev.corpus
       /\ getCompanies(corpus) = getCompanies(prev.corpus)

\* C3: when fetching one source fails (the request throws, or the file has no
\* content), the other source is still fetched, extracted and inserted in the same
\* invocation.
C3_FetchFailureIsolated ==
  (run.pc = "failed" /\ run.error \in {"fetch", "missing"})
    => \A s \in Sources \ {run.failedSource} :
         {<<"fetch", s>>, <<"extract", s>>, <<"insert", s>>} \subseteq run.steps

\* C4 (as stated): every posting a run inserts is, at the time of its insertion, no
\* more than 14 days old.
C4_FreshAtInsertion ==
  \A s \in Sources : \A k \in 1..Len(run.inserted[s]) :
    run.insertedAt[s] - run.inserted[s][k].createdAt <= Days(RetentionDays)

\* C4 (amended): every posting a run inserts was, at the time its source was
\* extracted, no more than 14 days old.
C4_FreshAtExtraction ==
  \A s \in Sources : \A k \in 1..Len(run.inserted[s]) :
    run.parsedAt[s] - run.inserted[s][k].createdAt <= Days(RetentionDays)

\* a run has inserted postings of both sources, one of them exactly 14 days old when
\* it was extracted
C4_Witness ==
  /\ run.pc = "done"
  /\ \A s \in Sources : Len(run.inserted[s]) > 0
  /\ \E s \in Sources : \E k \in 1..Len(run.inserted[s]) :
       run.parsedAt[s] - run.inserted[s][k].createdAt = Days(RetentionDays)

\* C5: addOpportunities inserts a candidate if and only if no posting already in the
\* corpus, of any source, has exactly its company and exactly its title; the inserted
\* postings carry the source of the call.
C5_InsertIffNoExistingKey ==
  lastCall.made =>
    LET pre == lastCall.existing
        b == lastCall.opportunities
        added == SubSeq(corpus, Len(pre) + 1, Len(corpus))
        survivors == {i \in 1..Len(b) : <<b[i].company, b[i].title>> \notin Keys(pre)}
        Nth(k) == CHOOSE i \in survivors : Cardinality({j \in survivors : j <= i}) = k
    IN /\ Len(corpus) = Len(pre) + Cardinality(survivors)
       /\ \A k \in 1..Len(added) :
            /\ added[k].company = b[Nth(k)].company
            /\ added[k].title = b[Nth(k)].title
            /\ added[k].source = lastCall.source

\* a call whose batch holds a candidate that matches a posting of the other source
\* (not inserted) and a candidate that differs from it in letter case only (inserted)
C5_Witness ==
  /\ lastCall.made
  /\ \E p \in 1..Len(lastCall.existing), i, j \in 1..Len(lastCall.opportunities) :
       LET doc == lastCall.existing[p]
           dup == lastCall.opportunities[i]
           other == lastCall.opportunities[j]
       IN /\ doc.source # lastCall.source
          /\ dup.company = doc.company /\ dup.title = doc.title
          /\ other.company # doc.company
          /\ toLowerCase(other.company) = toLowerCase(doc.company)
          /\ other.title = doc.title
          /\ Len(corpus) = Len(lastCall.existing) + 1
          /\ corpus[Len(corpus)].company = other.company

\* C6: the corpus is append-only: every step leaves the postings already in the
\* corpus in place and unchanged.
C6_AppendOnly ==
  [][/\ Len(corpus') >= Len(corpus)
     /\ SubSeq(corpus', 1, Len(corpus)) = corpus]_vars

\* an application exists, and a call has submitted a candidate that matches an
\* existing posting's key with another link, location, source and createdAt
C6_Witness ==
  /\ lastCall.made
  /\ Len(applications) > 0
  /\ \E p \in 1..Len(lastCall.existing), i \in 1..Len(lastCall.opportunities) :
       LET doc == lastCall.existing[p]
           o == lastCall.opportunities[i]
       IN /\ o.company = doc.company /\ o.title = doc.title
          /\ o.applicationLink # doc.link
          /\ o.location # doc.location
          /\ lastCall.source # doc.source
          /\ CreatedAtOr(o.createdAt, lastCall.at) # doc.createdAt
          /\ corpus[p] = doc

SortedDesc(page) ==
  \A i, j \in 1..Len(page) : i < j => page[i].createdAt >= page[j].createdAt

\* C7: getOpportunities takes one mode, in the order search, source, company set,
\* default: with a search term the source and company arguments do not change the
\* result; otherwise with a source the company argument does not change the result
\* and every returned posting has that source; otherwise with a non-empty company
\* array every returned posting has one of its companies; otherwise the first page
\* holds the newest postings of the whole corpus, newest first.
C7_ModePrecedence ==
  lastQuery.kind = "getOpportunities" =>
    LET a == lastQuery.args
        r == lastQuery.result
        Others == {x \in QueryArgs : x.paginationOpts = a.paginationOpts}
    IN IF a.search # <<>>
       THEN \A x \in Others : x.search = a.search => getOpportunities(corpus, x) = r
       ELSE IF a.source # ""
       THEN /\ \A x \in Others :
                 (x.search = <<>> /\ x.source = a.source) => getOpportunities(corpus, x) = r
            /\ \A i \in 1..Len(r.page) : r.page[i].source = a.source
       ELSE IF a.company # <<>>
       THEN \A i \in 1..Len(r.page) : r.page[i].company \in Range(a.company)
       ELSE /\ SortedDesc(r.page)
            /\ \A i \in 1..Len(r.page) : r.page[i] = corpus[r.page[i].id]
            /\ a.paginationOpts.cursor = <<>> =>
                 /\ Len(r.page) = IF a.paginationOpts.numItems < Len(corpus)
                                  THEN a.paginationOpts.numItems ELSE Len(corpus)
                 /\ \A d \in 1..Len(corpus) :
                      (\A i \in 1..Len(r.page) : r.page[i].id # d)
                        => \A i \in 1..Len(r.page) : corpus[d].createdAt <= r.page[i].createdAt

\* a query with a search term, a source and a company array returns a posting of
\* another source and of a company outside the array
C7_Witness ==
  /\ lastQuery.kind = "getOpportunities"
  /\ lastQuery.args.search # <<>>
  /\ lastQuery.args.source # ""
  /\ lastQuery.args.company # <<>>
  /\ \E i \in 1..Len(lastQuery.result.page) :
       /\ lastQuery.result.page[i].source # lastQuery.args.source
       /\ lastQuery.result.page[i].company \notin Range(lastQuery.args.company)

C9_DistinctCompanies ==
  lastQuery.kind = "getCompanies" =>
    /\ Range(lastQuery.companies) = {corpus[i].company : i \in 1..Len(corpus)}
    /\ \A i, j \in 1..Len(lastQuery.companies) :
         lastQuery.companies[i] = lastQuery.companies[j] => i = j

\* the corpus holds two postings of one company and one of another
C9_Witness ==
  /\ lastQuery.kind = "getCompanies"
  /\ Len(lastQuery.companies) = 2
  /\ Len(corpus) = 3

\* C10: an invocation fails only by a fetch failure: the extractors drop malformed
\* rows and never raise.
C10_OnlyFetchFailures ==
  run.pc = "failed" => run.error \in {"fetch", "missing"}


\* the extractor of a source has returned from the call on the file in run.file
ExtractedBy(source) == run.pc = "done" /\ <<"extract", source>> \in run.steps

\* a five-cell row of Source A whose company cell is a hyperlink to one target and
\* whose fourth cell links to another, with a title, a company that is neither the
\* marker nor a header word, and a month-and-day token that names a day of the
\* current year no more than 14 days before t and not after it
LinkedFreshRow(r, t) ==
  /\ r.kind = "tr"
  /\ Len(r.c1.anchor) > 0
  /\ Len(r.anchors4) > 0
  /\ r.anchors4[1].href # r.c1.anchor[1].href
  /\ r.c1.anchor[1].href # <<>>
  /\ r.c1.anchor[1].text \notin {<<>>, Marker, CompanyHeader, NameHeader}
  /\ removeEmojis(r.title) # <<>>
  /\ r.date.k = "monthday"
  /\ r.date.word \in DOMAIN monthMap
  /\ DateTime(getFullYear(t), monthMap[r.date.word], r.date.num) <= t
  /\ DateTime(getFullYear(t), monthMap[r.date.word], r.date.num) >= t - Days(RetentionDays)

\* C11: the Source A extractor emits, for a five-cell row whose company cell is a
\* hyperlink and whose date is within the last 14 days, exactly one row: the link
\* text as company, the title, the location, the company cell's link target as
\* applicationLink (not the fourth cell's link) and that month and day of the current
\* year as createdAt.
C11_LinkedCompanyRow ==
  ExtractedBy(SourceA) =>
    LET content == run.file[SourceA].content
        t == run.parsedAt[SourceA]
        out == run.parsed[SourceA]
    IN \A i \in 1..Len(content) :
         LinkedFreshRow(content[i], t) =>
           LET r == content[i]
               expected == Internship(r.c1.anchor[1].text, removeEmojis(r.title), r.location,
                                      r.c1.anchor[1].href,
                                      Days(getFullYear(t) * YearDays
                                           + CumDays[monthMap[r.date.word] + 1]
                                           + r.date.num - 1))
           IN Cardinality({k \in 1..Len(out) : out[k] = expected})
                = Cardinality({j \in 1..Len(content) : content[j] = r})

\* the README is that one row, dated 24 September and read on 8 October at 00:00;
\* one row comes out, with the company cell's link
C11_Witness ==
  /\ ExtractedBy(SourceA)
  /\ Len(run.file[SourceA].content) = 1
  /\ LinkedFreshRow(run.file[SourceA].content[1], run.parsedAt[SourceA])
  /\ run.file[SourceA].content[1].date = MonthDay("Sep", 24)
  /\ Len(run.parsed[SourceA]) = 1
  /\ run.parsed[SourceA][1].applicationLink = LinkX
  /\ run.parsed[SourceA][1].createdAt = run.parsedAt[SourceA] - Days(RetentionDays)


\* what a line of Source A shows on its own, whatever came before it: the company
\* text, the title, the link and the date its cells hold
ViewA(r, t) ==
  IF r.kind = "tr"
  THEN [company |-> IF Len(r.c1.anchor) > 0 THEN trim(r.c1.anchor[1].text) ELSE trim(r.c1.text),
        title |-> removeEmojis(trim(r.title)),
        link |-> IF Len(r.c1.anchor) > 0 /\ r.c1.anchor[1].href # <<>>
                 THEN r.c1.anchor[1].href
                 ELSE IF Len(r.anchors4) > 0 THEN r.anchors4[1].href ELSE <<>>,
        createdAt |-> VanshCreatedAt(r.date, t)]
  ELSE [company |-> r.c1.text,
        title |-> removeEmojis(r.title),
        link |-> LastHref(r.rest, 1, <<>>),
        createdAt |-> IF Len(r.rest) >= 2 THEN VanshCreatedAt(r.rest[2].date, t) ELSE t]

\* the row predicate: none of the five rejection conditions holds for the line's own
\* company text, title, link and date
Passes(v, t) ==
  /\ ~includes(toLowerCase(v.company), NeedleCompany)
  /\ ~includes(toLowerCase(v.company), NeedleName)
  /\ trim(v.company) # <<>>
  /\ trim(v.title) # <<>>
  /\ trim(v.link) # <<>>
  /\ v.createdAt >= t - Days(RetentionDays)

\* the strategy that yields the rows of a Source A README: the primary one when a
\* five-cell row passes the row predicate, else the fallback
ActiveKind(content, t) ==
  IF \E i \in 1..Len(content) : content[i].kind = "tr" /\ Passes(ViewA(content[i], t), t)
  THEN "tr" ELSE "md"

\* the positions, in order, of the lines of the active strategy that pass the row
\* predicate
PassingLines(content, t) ==
  LET S == {i \in 1..Len(content) :
              content[i].kind = ActiveKind(content, t) /\ Passes(ViewA(content[i], t), t)}
  IN [k \in 1..Cardinality(S) |-> CHOOSE i \in S : Cardinality({j \in S : j <= i}) = k]

\* C12: in the Source A extractor, primary and fallback strategy alike, a row whose
\* company position holds only the continuation marker is emitted with the company
\* of the immediately preceding emitted row, whatever header rows, rejected rows and
\* non-row lines stand between the two.
C12_MarkerCarriesLastEmitted ==
  ExtractedBy(SourceA) =>
    LET content == run.file[SourceA].content
        t == run.parsedAt[SourceA]
        out == run.parsed[SourceA]
        E == PassingLines(content, t)
    IN Len(out) = Len(E) =>
         \A k \in 2..Len(out) :
           ViewA(content[E[k]], t).company = Marker => out[k].company = out[k - 1].company


\* the days a Source B token <integer><unit> stands for: the value for d, 7 times
\* the value for w, 30 times the value for mo and for any other unit (the unit read
\* without regard to letter case)
DaysAgo(cell) ==
  CASE toLowerCase(cell.unit) = <<100>> -> cell.num
    [] toLowerCase(cell.unit) = <<119>> -> 7 * cell.num
    [] OTHER -> 30 * cell.num

\* C13: Source B resolves a token <integer><unit> to now minus the value in days for
\* d, times 7 for w, times 30 for mo and every other unit; every emitted row carries
\* such a date, none of them more than 14 days before now, so a row that resolves to
\* an older date (20mo) is not emitted.
C13_RelativeDates ==
  ExtractedBy(SourceB) =>
    LET content == run.file[SourceB].content
        t == run.parsedAt[SourceB]
        out == run.parsed[SourceB]
        dated == {i \in 1..Len(content) : content[i].kind = "tr" /\ content[i].date.k = "rel"}
        fresh == {i \in dated : 14 * TicksPerDay >= DaysAgo(content[i].date) * TicksPerDay}
    IN /\ \A i \in dated :
            run.resolved[SourceB][i] = t - DaysAgo(content[i].date) * TicksPerDay
       /\ \A k \in 1..Len(out) :
            /\ out[k].createdAt >= t - 14 * TicksPerDay
            /\ \E i \in fresh : out[k].createdAt = t - DaysAgo(content[i].date) * TicksPerDay
       /\ Len(out) <= Cardinality(fresh)

\* a README with a row dated 2w and a row dated 20mo: the first is emitted with a
\* date 14 days back, the second resolves to 600 days back and is not emitted
C13_Witness ==
  /\ ExtractedBy(SourceB)
  /\ run.file[SourceB].content = <<RowAcme2w, RowStale20mo>>
  /\ Len(run.parsed[SourceB]) = 1
  /\ run.parsed[SourceB][1].createdAt = run.parsedAt[SourceB] - 14 * TicksPerDay
  /\ run.resolved[SourceB][2] = run.parsedAt[SourceB] - 600 * TicksPerDay


\* C14: when two invocations of the orchestrator overlap, no (company, title) pair
\* is in the corpus twice once both have returned.
C14_NoDuplicateKeysOverlapping ==
  (run.pc \in {"done", "failed"} /\ run2.pc \in {"done", "failed"})
    => Cardinality(Keys(corpus)) = Len(corpus)


\* how many records of a sequence carry a (company, title) pair
CountKey(docs, key) ==
  Cardinality({i \in 1..Len(docs) : <<docs[i].company, docs[i].title>> = key})

\* C15: addOpportunities tests the whole batch against one snapshot of the corpus,
\* read before any insert of the batch: a candidate is never tested against another
\* candidate of its batch, so every candidate whose pair the snapshot lacks is
\* inserted, as many times as the batch holds it.
C15_SingleSnapshot ==
  lastCall.made =>
    \A key \in Keys(lastCall.existing) \cup Keys(lastCall.opportunities) :
      CountKey(corpus, key) =
        IF key \in Keys(lastCall.existing)
        THEN CountKey(lastCall.existing, key)
        ELSE CountKey(lastCall.opportunities, key)

\* a call on a non-empty corpus whose batch holds twice a pair the corpus lacks:
\* both candidates are inserted
C15_Witness ==
  /\ lastCall.made
  /\ Len(lastCall.existing) > 0
  /\ Len(lastCall.opportunities) = 2
  /\ lastCall.opportunities[1].company = lastCall.opportunities[2].company
  /\ lastCall.opportunities[1].title = lastCall.opportunities[2].title
  /\ lastCall.opportunities[1] # lastCall.opportunities[2]
  /\ Len(corpus) = Len(lastCall.existing) + 2


\* C16: within one invocation a source's postings are inserted only after that
\* source's text has been extracted in full, and what is inserted for a source is the
\* extracted batch less its duplicates; an invocation that fails while fetching or
\* extracting has inserted nothing, so no part of a batch is in the corpus.
C16_InsertAfterExtraction ==
  /\ \A s \in Sources :
       /\ <<"insert", s>> \in run.steps => <<"extract", s>> \in run.steps
       /\ run.inserted[s] # <<>> => <<"insert", s>> \in run.steps
       /\ \A k \in 1..Len(run.inserted[s]) :
            \E i \in 1..Len(run.parsed[s]) :
              /\ run.inserted[s][k].company = run.parsed[s][i].company
              /\ run.inserted[s][k].title = run.parsed[s][i].title
  /\ (run.pc = "failed" /\ run.error \in {"fetch", "missing", "extract"})
       => /\ corpus = prev.corpus
          /\ \A s \in Sources : <<"insert", s>> \notin run.steps

\* the second invocation has extracted rows of Source A and then failed on Source B,
\* and the corpus is the one the first invocation left
C16_Witness ==
  /\ run.pc = "failed"
  /\ run.failedSource = SourceB
  /\ Len(run.parsed[SourceA]) > 0
  /\ prev.made
  /\ Len(corpus) > 0
  /\ corpus = prev.corpus


\* what a five-cell row of Source B shows on its own
ViewB(r, t) ==
  [company |-> IF Len(r.c1.anchor) > 0 THEN trim(r.c1.anchor[1].text) ELSE trim(r.c1.text),
   title |-> removeEmojis(trim(r.title)),
   link |-> IF Len(ApplyLink(r.anchors4)) > 0 THEN ApplyLink(r.anchors4)[1]
            ELSE IF Len(r.c1.anchor) > 0 THEN r.c1.anchor[1].href ELSE <<>>,
   createdAt |-> SimplifyCreatedAt(r.date, t)]

\* C17: in both extractors a row is emitted if and only if none of these holds: its
\* company text contains "company" or "name" whatever the letter case, its company is
\* empty after trim, its title is empty after trim, no application link was found
\* for it, or its resolved date is more than 14 days before now.  The rows an
\* extractor returns are therefore as many as the rows that pass.
C17_EmittedIffPasses ==
  /\ ExtractedBy(SourceA) =>
       Len(run.parsed[SourceA])
         = Len(PassingLines(run.file[SourceA].content, run.parsedAt[SourceA]))
  /\ ExtractedBy(SourceB) =>
       Len(run.parsed[SourceB])
         = Cardinality({i \in 1..Len(run.file[SourceB].content) :
                          /\ run.file[SourceB].content[i].kind = "tr"
                          /\ Passes(ViewB(run.file[SourceB].content[i], run.parsedAt[SourceB]),
                                    run.parsedAt[SourceB])})


\* parseVansh has been called on the file in run.file and has returned or thrown
VanshCalled == run.pc \in {"done", "failed"} /\ run.file[SourceA].present

\* C18: Source A takes its rows from the fallback strategy exactly when the primary
\* strategy yields none; in the fallback every line that starts with the delimiter
\* and splits into at least 3 fields is emitted or rejected by the row predicate, so
\* the call returns; every returned row comes from a line of the one strategy used.
C18_FallbackWhenPrimaryEmpty ==
  VanshCalled =>
    LET content == run.file[SourceA].content
        t == run.parsedAt[SourceA]
        out == run.parsed[SourceA]
        kind == ActiveKind(content, t)
    IN /\ run.pc = "done"
       /\ \A k \in 1..Len(out) :
            \E i \in 1..Len(content) :
              /\ content[i].kind = kind
              /\ out[k].title = RemoveBrackets(ViewA(content[i], t).title)
              /\ out[k].applicationLink = ViewA(content[i], t).link
              /\ out[k].createdAt = ViewA(content[i], t).createdAt
       /\ (kind = "md" /\ \E i \in 1..Len(content) :
                             /\ content[i].kind = "md"
                             /\ ViewA(content[i], t).company # Marker
                             /\ Passes(ViewA(content[i], t), t))
            => Len(out) > 0


\* the twelve abbreviations, Jan to Dec, in calendar order
MonthNames ==
  <<"Jan", "Feb", "Mar", "Apr", "May", "Jun", "Jul", "Aug", "Sep", "Oct", "Nov", "Dec">>

\* midnight of a month (1..12) and day in the calendar year that holds t; every year
\* has 365 days
InYearOf(t, month, day) ==
  LET year == CHOOSE y \in 0..100 :
                /\ y * 365 * TicksPerDay <= t
                /\ t < (y + 1) * 365 * TicksPerDay
      before == <<0, 31, 59, 90, 120, 151, 181, 212, 243, 273, 304, 334>>
  IN (year * 365 + before[month] + day - 1) * TicksPerDay

\* the date cell of a line of Source A
DateCellA(r) ==
  IF r.kind = "tr" THEN r.date
  ELSE IF Len(r.rest) >= 2 THEN r.rest[2].date ELSE NoDate

\* C19: Source A resolves a 3-letter month abbreviation and a day to that month and
\* day of the calendar year current at parse time, without a year-boundary
\* correction (a month later than the current one gives a future timestamp), and any
\* other date cell to the current time; emitted rows carry the resolved date.
C19_CurrentYearDates ==
  (VanshCalled /\ run.pc = "done") =>
    LET content == run.file[SourceA].content
        t == run.parsedAt[SourceA]
        out == run.parsed[SourceA]
        dated == {i \in 1..Len(content) :
                    content[i].kind = "tr" \/ (content[i].kind = "md" /\ Len(content[i].rest) >= 2)}
        Expected(cell) ==
          IF cell.k = "monthday" /\ \E m \in 1..12 : MonthNames[m] = cell.word
          THEN InYearOf(t, CHOOSE m \in 1..12 : MonthNames[m] = cell.word, cell.num)
          ELSE t
    IN /\ \A i \in dated : run.resolved[SourceA][i] = Expected(DateCellA(content[i]))
       /\ \A k \in 1..Len(out) :
            \E i \in dated : out[k].createdAt = Expected(DateCellA(content[i]))

\* on 5 January a row dated "Dec 28" is emitted with the 28 December that lies ahead
C19_Witness ==
  /\ VanshCalled
  /\ run.pc = "done"
  /\ Len(run.file[SourceA].content) = 1
  /\ DateCellA(run.file[SourceA].content[1]) = MonthDay("Dec", 28)
  /\ Len(run.parsed[SourceA]) = 1
  /\ run.parsed[SourceA][1].createdAt > run.parsedAt[SourceA] + 300 * TicksPerDay


\* C20: Source B never takes the hyperlink of the company cell as the application
\* link: the applicationLink of every emitted row is the target of a hyperlink of
\* that row's fourth cell.
C20_CompanyLinkNeverUsed ==
  ExtractedBy(SourceB) =>
    LET content == run.file[SourceB].content
        t == run.parsedAt[SourceB]
        out == run.parsed[SourceB]
    IN \A k \in 1..Len(out) :
         \E i \in 1..Len(content) :
           /\ content[i].kind = "tr"
           /\ out[k].title = removeEmojis(trim(content[i].title))
           /\ out[k].createdAt = SimplifyCreatedAt(content[i].date, t)
           /\ \E j \in 1..Len(content[i].anchors4) :
                content[i].anchors4[j].href = out[k].applicationLink


\* C21: in Source B a row whose fourth cell holds a hyperlink labelled Apply is
\* emitted with the target of that hyperlink as applicationLink, whatever other
\* hyperlinks the cell holds; the first cell's link is taken only when the fourth
\* cell has no hyperlink labelled Apply.
C21_ApplyLinkTaken ==
  ExtractedBy(SourceB) =>
    LET content == run.file[SourceB].content
        t == run.parsedAt[SourceB]
        out == run.parsed[SourceB]
    IN \A k \in 1..Len(out) :
         \E i \in 1..Len(content) :
           LET r == content[i]
               applies == {j \in 1..Len(r.anchors4) : r.anchors4[j].apply}
           IN /\ r.kind = "tr"
              /\ out[k].title = removeEmojis(trim(r.title))
              /\ out[k].createdAt = SimplifyCreatedAt(r.date, t)
              /\ IF applies # {}
                 THEN \E j \in applies : out[k].applicationLink = r.anchors4[j].href
                 ELSE /\ Len(r.c1.anchor) > 0
                      /\ out[k].applicationLink = r.c1.anchor[1].href


\* the targets of the hyperlinks a line of Source A holds after its third cell
LaterLinks(r) ==
  IF r.kind = "tr" THEN {r.anchors4[j].href : j \in 1..Len(r.anchors4)}
  ELSE UNION {Range(r.rest[j].hrefs) : j \in 1..Len(r.rest)}

\* C22: in Source A a row whose company cell has an embedded link is emitted with
\* that link's target as applicationLink, whatever the fourth cell holds; the fourth
\* cell gives the link only of a row whose company cell has none, and no row is
\* emitted without a link from one of the two places.
C22_CompanyLinkFirst ==
  ExtractedBy(SourceA) =>
    LET content == run.file[SourceA].content
        t == run.parsedAt[SourceA]
        out == run.parsed[SourceA]
    IN \A k \in 1..Len(out) :
         \E i \in 1..Len(content) :
           LET r == content[i]
           IN /\ r.kind = ActiveKind(content, t)
              /\ out[k].title = RemoveBrackets(ViewA(r, t).title)
              /\ out[k].createdAt = ViewA(r, t).createdAt
              /\ out[k].applicationLink # <<>>
              /\ IF Len(r.c1.anchor) > 0
                 THEN out[k].applicationLink = r.c1.anchor[1].href
                 ELSE out[k].applicationLink \in LaterLinks(r)


\* C23: a Source B row whose date cell holds no <integer><unit> token resolves to 180
\* days before now and is never emitted, whatever its other cells hold: the rows
\* emitted are no more than the rows that hold such a token, and none carries the
\* default date.
C23_UndatedNeverEmitted ==
  ExtractedBy(SourceB) =>
    LET content == run.file[SourceB].content
        t == run.parsedAt[SourceB]
        out == run.parsed[SourceB]
        rows == {i \in 1..Len(content) : content[i].kind = "tr"}
        undated == {i \in rows : content[i].date.k # "rel"}
    IN /\ \A i \in undated : run.resolved[SourceB][i] = t - 180 * TicksPerDay
       /\ Len(out) <= Cardinality(rows \ undated)
       /\ \A k \in 1..Len(out) :
            /\ out[k].createdAt # t - 180 * TicksPerDay
            /\ \E i \in rows \ undated :
                 /\ out[k].title = removeEmojis(trim(content[i].title))
                 /\ out[k].createdAt = SimplifyCreatedAt(content[i].date, t)

\* a row with a company, a title and an Apply link, and a date cell without a token:
\* nothing is emitted
C23_Witness ==
  /\ ExtractedBy(SourceB)
  /\ Len(run.file[SourceB].content) = 1
  /\ run.file[SourceB].content[1].kind = "tr"
  /\ run.file[SourceB].content[1].date = NoDate
  /\ run.file[SourceB].content[1].c1.text = Globex
  /\ run.file[SourceB].content[1].title = SWE
  /\ ApplyLink(run.file[SourceB].content[1].anchors4) # <<>>
  /\ run.parsed[SourceB] = <<>>
  /\ run.resolved[SourceB][1] = run.parsedAt[SourceB] - 180 * TicksPerDay

IsAscii(text) == \A i \in 1..Len(text) : text[i] < 128

AllSpaces(text) == \A i \in 1..Len(text) : IsSpace(text[i])

\* out is what is left of text once the white space at its two ends is dropped
Trimmed(text, out) ==
  /\ \E i \in 0..Len(text), j \in 0..Len(text) :
       /\ i <= j
       /\ AllSpaces(SubSeq(text, 1, i))
       /\ out = SubSeq(text, i + 1, j)
       /\ AllSpaces(SubSeq(text, j + 1, Len(text)))
  /\ out # <<>> => ~IsSpace(out[1]) /\ ~IsSpace(out[Len(out)])

RECURSIVE Concat(_)
Concat(pages) == IF pages = <<>> THEN <<>> ELSE Head(pages) \o Concat(Tail(pages))

Returned == Concat(traversal.pages)

\* the documents of the corpus whose company is one of the filter's
Matching == {i \in 1..Len(corpus) : corpus[i].company \in Range(traversal.company)}

TimesReturned(doc) == Cardinality({k \in 1..Len(Returned) : Returned[k].id = doc.id})

C26_NoPostingOnTwoPages ==
  \A p, q \in 1..Len(traversal.pages) :
    p # q => \A k \in 1..Len(traversal.pages[p]), l \in 1..Len(traversal.pages[q]) :
               traversal.pages[p][k].id # traversal.pages[q][l].id

\* C30: a company-set traversal that follows continueCursor from the first page is
\* answered with isDone = true after finitely many requests, whatever page size is
\* passed and whatever the corpus holds.
C30_TraversalTerminates == <>(traversal.isDone)

\* C29: neither extractor ever emits a row whose company is the continuation marker
\* itself; a marker row before any accepted row with a real company is not emitted.
C29_MarkerNeverACompany ==
  \A source \in Sources :
    ExtractedBy(source) =>
      \A k \in 1..Len(run.parsed[source]) : run.parsed[source][k].company # Marker

\* what an extractor returns for the content at time t: the rows, or none when it throws
EmittedAt(source, content, t) ==
  LET parsed == IF source = SourceA THEN parseVansh(content, t) ELSE parseSimplify(content, t)
  IN IF parsed.ok THEN parsed.internships ELSE <<>>

\* C27: for fixed content, the (company, title) pairs an extractor emits at a later
\* time are among those it emitted at an earlier time: time only removes rows.
C27_LaterPairsAmongEarlier ==
  \A source \in Sources :
    ExtractedBy(source) =>
      \A t \in ExtractTimes :
        t > run.parsedAt[source] =>
          Keys(EmittedAt(source, run.file[source].content, t)) \subseteq Keys(run.parsed[source])

\* the corpus as the completed invocation found it, before its two inserts
CorpusBeforeInserts ==
  SubSeq(corpus, 1,
         Len(corpus) - Len(run.inserted[SourceA]) - Len(run.inserted[SourceB]))

\* the (company, title) pairs both extractors emitted that the corpus did not hold
NewInBoth ==
  (Keys(run.parsed[SourceA]) \cap Keys(run.parsed[SourceB])) \ Keys(CorpusBeforeInserts)

\* C28: when one invocation extracts the same (company, title) pair from both
\* sources and the corpus does not hold it yet, the invocation inserts exactly one
\* posting for the pair, tagged with Source A.
C28_OnePostingFromSourceA ==
  run.pc = "done" =>
    \A key \in NewInBoth :
      /\ CountKey(run.inserted[SourceA], key) = 1
      /\ CountKey(run.inserted[SourceB], key) = 0
      /\ \A i \in 1..Len(corpus) :
           <<corpus[i].company, corpus[i].title>> = key => corpus[i].source = SourceA

====
